---- MODULE Spec2Model ----
(***************************************************************************)
(* The factor evaluation functions of the dashboard's config module        *)
(* (FACTOR_NAMES and getFactorInfo .. getValueStatus) applied to one       *)
(* factor reading (name, value), in the order the factor card calls them.  *)
(*                                                                         *)
(* Numbers.  A JavaScript number is modelled exactly, as a decimal:        *)
(*   [k |-> "fin", m, e]   the number m / 10^e  (e = 5 for every input and *)
(*                         every table entry, e = 3 after value * 100);    *)
(*   [k |-> "big", m, e]   the number m * 10^e with m in {1,-1}, e >= 21:  *)
(*                         a finite number at or beyond the 10^21 limit of *)
(*                         Number.prototype.toFixed;                       *)
(*   [k |-> "nan", ..]     NaN.                                            *)
(* null and undefined are the values [k |-> "null"], [k |-> "undefined"].  *)
(* IEEE rounding is left out: on the inputs used here (multiples of 10^-5  *)
(* far below 2^53 * 10^-5, no decimal tie that is not a binary fraction)   *)
(* the comparisons, the clamp, x / x = 1, 0 / x = 0 and the digits that    *)
(* toFixed prints are the same for the double and for the exact decimal.   *)
(*                                                                         *)
(* Strings that are inspected (the formatted value) are sequences of       *)
(* one-character strings.  The Chinese status texts are written in pinyin; *)
(* the comment beside each gives the source text.                          *)
(*                                                                         *)
(* A run follows one activity of the dashboard:                            *)
(*  - the factor card (App.tsx, lines 1443-1483) makes its calls for one   *)
(*    reading, in its order; the card's shortcut `info ?                   *)
(*    getValuePosition(..) : 0.5` is not taken: getValuePosition is called *)
(*    for every key;                                                       *)
(*  - the effect on analysisResult.symbol resolves the symbol's industry   *)
(*    mapping, and analyzeIndustryStocks requests the analysis of its      *)
(*    peers, on its own or called by generateResearchReport;               *)
(*  - getFactorCategories groups the factors of the analysis result;       *)
(*  - handleLogout ends the user's session.                                *)
(*                                                                         *)
(* A value that may be undefined (a field of the resolved mapping) is      *)
(* either `undefined` or [k |-> "value", v |-> the value].  A TypeError    *)
(* thrown while formatting is the result TypeError.                        *)
(***************************************************************************)
EXTENDS Integers, Sequences, FiniteSets, TLC

VARIABLES registry, name, value, pc, info, position, status, isNormal,
          factorName, factorDesc, formatted,
          symbol, sessionId, ipc, mapping, detectedIndustry,
          researchTopic, relatedStocks, stocksToAnalyze, requested, outcomes, results,
          hasResult, latestFactors, categories, cpc,
          kimiApiKey, error, researchReport, generatingReport, analyzingIndustry,
          industryAnalysisData, rpc,
          localStorage, phoneAuthToken, userInfo, hasLongBridgeCredentials,
          isAuthenticated, holdings, watchlist, portfolioAnalysisResults, lpc

\* the factor card's reading, position and results
cardVars == <<registry, name, value, pc, info, position, status, isNormal,
              factorName, factorDesc, formatted>>

\* the symbol, the industry state of App and analyzeIndustryStocks' locals
industryVars == <<symbol, sessionId, ipc, mapping, detectedIndustry, researchTopic,
                  relatedStocks, stocksToAnalyze, requested, outcomes, results>>

\* analysisResult (with symbol): whether there is one, and the keys of its
\* latest_factors in their order; the groups getFactorCategories returns
categoryVars == <<hasResult, latestFactors, categories, cpc>>

\* the research report state of App and generateResearchReport's position
reportVars == <<kimiApiKey, error, researchReport, generatingReport, analyzingIndustry,
                industryAnalysisData, rpc>>

\* the login state of App and the browser's localStorage (with sessionId),
\* the portfolio state, and whether handleLogout has run
accountVars == <<localStorage, phoneAuthToken, userInfo, hasLongBridgeCredentials,
                 isAuthenticated, holdings, watchlist, portfolioAnalysisResults, lpc>>

vars == <<cardVars, industryVars, categoryVars, reportVars, accountVars>>

\* Offsets, in units of 10^-5, tried around every threshold of a definition.
MaxOffset == 2

\* ------------------------------------------------------------------ values

\* m / 10^5: the unit of the table's numbers and of the readings is 10^-5
Fin(m) == [k |-> "fin", m |-> m, e |-> 5]

Big(s, e) == [k |-> "big", m |-> s, e |-> e]

NaN == [k |-> "nan", m |-> 0, e |-> 0]

null == [k |-> "null", m |-> 0, e |-> 0]

undefined == [k |-> "undefined", m |-> 0, e |-> 0]

\* ToNumber, applied by `value - info.min` and by <, >, <=, >= to their
\* operands: null is +0, undefined is NaN, a number is itself.
ToNumber(v) ==
  CASE v.k = "null" -> Fin(0)
    [] v.k = "undefined" -> NaN
    [] OTHER -> v

\* x < t, x > t, x >= t, x <= t for a number x and a table number t (t in units
\* of 10^-5); every comparison with NaN is false.
Less(x, t) ==
  CASE x.k = "fin" -> x.m < t
    [] x.k = "big" -> x.m < 0
    [] OTHER -> FALSE

Greater(x, t) ==
  CASE x.k = "fin" -> x.m > t
    [] x.k = "big" -> x.m > 0
    [] OTHER -> FALSE

GreaterEq(x, t) ==
  CASE x.k = "fin" -> x.m >= t
    [] x.k = "big" -> x.m > 0
    [] OTHER -> FALSE

LessEq(x, t) ==
  CASE x.k = "fin" -> x.m <= t
    [] x.k = "big" -> x.m < 0
    [] OTHER -> FALSE

\* x - t
Minus(x, t) ==
  CASE x.k = "fin" -> Fin(x.m - t)
    [] OTHER -> x

\* x * 100
Times100(x) ==
  CASE x.k = "fin" -> [k |-> "fin", m |-> x.m, e |-> x.e - 2]
    [] x.k = "big" -> [k |-> "big", m |-> x.m, e |-> x.e + 2]
    [] OTHER -> x

\* A quotient num / den (den > 0) of two numbers of the same unit, the form a
\* position takes; [k |-> "big"] is a quotient beyond every table number.
Quot(num, den) == [k |-> "fin", num |-> num, den |-> den]

NaNQ == [k |-> "nan", num |-> 0, den |-> 1]

\* x / r for r # 0
Over(x, r) ==
  CASE x.k = "fin" -> IF r > 0 THEN Quot(x.m, r) ELSE Quot(0 - x.m, 0 - r)
    [] x.k = "big" -> [k |-> "big", num |-> IF r > 0 THEN x.m ELSE 0 - x.m, den |-> 1]
    [] OTHER -> NaNQ

\* a <= b for two quotients, neither NaN.  Two quotients of one definition have
\* the same denominator (its range); otherwise one of them is 0, 1 or 0.5.
QLe(a, b) ==
  CASE a.k = "big" /\ b.k = "big" -> a.num <= b.num
    [] a.k = "big" -> a.num < 0
    [] b.k = "big" -> b.num > 0
    [] OTHER -> IF a.den = b.den THEN a.num <= b.num
                ELSE a.num * b.den <= b.num * a.den

QEq(a, b) == a.k # "nan" /\ b.k # "nan" /\ QLe(a, b) /\ QLe(b, a)

\* Math.min(a, b) and Math.max(a, b): NaN if either is NaN
MathMin(a, b) ==
  IF a.k = "nan" \/ b.k = "nan" THEN NaNQ
  ELSE IF QLe(a, b) THEN a ELSE b

MathMax(a, b) ==
  IF a.k = "nan" \/ b.k = "nan" THEN NaNQ
  ELSE IF QLe(a, b) THEN b ELSE a

\* ----------------------------------------------------------------- strings

Digit(d) == <<"0", "1", "2", "3", "4", "5", "6", "7", "8", "9">>[d + 1]

RECURSIVE NatChars(_)
\* the decimal digits of a natural number, no leading zero
NatChars(n) ==
  IF n < 10 THEN <<Digit(n)>> ELSE NatChars(n \div 10) \o <<Digit(n % 10)>>

RECURSIVE Pad(_, _)
\* the last w decimal digits of n, zero-padded
Pad(n, w) ==
  IF w = 0 THEN <<>> ELSE Pad(n \div 10, w - 1) \o <<Digit(n % 10)>>

\* Number.prototype.toString of a number at or beyond 10^21: exponent form
NumberToString(x) ==
  (IF x.m < 0 THEN <<"-">> ELSE <<>>) \o <<"1", "e", "+">> \o NatChars(x.e)

\* what reading a property of null or undefined throws
TypeError == <<"TypeError">>

\* s + t for a string s that an expression yields, unless the expression threw
Concat(s, t) == IF s = TypeError THEN TypeError ELSE s \o t

\* value.toFixed(f).  Reading toFixed of null or undefined throws a TypeError.
\* Number.prototype.toFixed(f): NaN prints "NaN"; a number at or beyond 10^21
\* prints as toString prints it; otherwise the sign, then the integer n nearest
\* to |x| * 10^f (the larger n on a tie) with a point before its last f digits.
toFixed(x, f) ==
  CASE x.k = "null" \/ x.k = "undefined" -> TypeError
    [] x.k = "nan" -> <<"N", "a", "N">>
    [] x.k = "big" -> NumberToString(x)
    [] OTHER ->
       LET a == IF x.m < 0 THEN 0 - x.m ELSE x.m
           n == IF x.e > f
                THEN (a + 5 * 10 ^ (x.e - f - 1)) \div 10 ^ (x.e - f)
                ELSE a * 10 ^ (f - x.e)
       IN (IF x.m < 0 THEN <<"-">> ELSE <<>>)
          \o NatChars(n \div 10 ^ f)
          \o (IF f > 0 THEN <<".">> \o Pad(n % 10 ^ f, f) ELSE <<>>)

\* ---------------------------------------------------------------- registry

\* The configured table.  Numbers are in units of 10^-5; name and desc are
\* English renderings of the source's Chinese strings.
FACTOR_NAMES ==
  \* momentum_5d: '5日动量' (lines 24-31)
  "momentum_5d" :> [name |-> "5-day momentum", desc |-> "return over the past 5 trading days",
       min |-> -20000, max |-> 20000, normalLow |-> -5000, normalHigh |-> 5000, unit |-> "%", isPercent |-> TRUE]
  \* momentum_10d: '10日动量' (lines 32-39)
  @@ "momentum_10d" :> [name |-> "10-day momentum", desc |-> "return over the past 10 trading days",
       min |-> -30000, max |-> 30000, normalLow |-> -8000, normalHigh |-> 8000, unit |-> "%", isPercent |-> TRUE]
  \* momentum_20d: '20日动量' (lines 40-47)
  @@ "momentum_20d" :> [name |-> "20-day momentum", desc |-> "return over the past 20 trading days",
       min |-> -50000, max |-> 50000, normalLow |-> -15000, normalHigh |-> 15000, unit |-> "%", isPercent |-> TRUE]
  \* momentum_60d: '60日动量' (lines 48-55)
  @@ "momentum_60d" :> [name |-> "60-day momentum", desc |-> "return over the past 60 trading days",
       min |-> -80000, max |-> 80000, normalLow |-> -25000, normalHigh |-> 25000, unit |-> "%", isPercent |-> TRUE]
  \* up_days_ratio: '上涨天数占比' (lines 56-63)
  @@ "up_days_ratio" :> [name |-> "up-days ratio", desc |-> "share of rising days in the past 20 trading days",
       min |-> 0, max |-> 100000, normalLow |-> 40000, normalHigh |-> 60000, unit |-> "%", isPercent |-> TRUE]
  \* volatility_20d: '20日波动率' (lines 66-73)
  @@ "volatility_20d" :> [name |-> "20-day volatility", desc |-> "annualised volatility of the past 20 trading days",
       min |-> 0, max |-> 100000, normalLow |-> 15000, normalHigh |-> 35000, unit |-> "%", isPercent |-> TRUE]
  \* max_drawdown_60d: '60日最大回撤' (lines 74-82)
  @@ "max_drawdown_60d" :> [name |-> "60-day max drawdown", desc |-> "largest fall from the peak in the past 60 trading days",
       min |-> -50000, max |-> 0, normalLow |-> -15000, normalHigh |-> -5000, unit |-> "%", isPercent |-> TRUE, inverse |-> TRUE]
  \* atr_14: '14日ATR' (lines 83-90)
  @@ "atr_14" :> [name |-> "14-day ATR", desc |-> "14-day average true range relative to price",
       min |-> 0, max |-> 10000, normalLow |-> 1000, normalHigh |-> 3000, unit |-> "%", isPercent |-> TRUE]
  \* rsi_14: 'RSI(14)' (lines 93-99)
  @@ "rsi_14" :> [name |-> "RSI(14)", desc |-> "14-day relative strength index between 0 and 100",
       min |-> 0, max |-> 10000000, normalLow |-> 3000000, normalHigh |-> 7000000, unit |-> ""]
  \* macd_dif: 'MACD DIF' (lines 100-107)
  @@ "macd_dif" :> [name |-> "MACD DIF", desc |-> "MACD fast line",
       min |-> -10000, max |-> 10000, normalLow |-> -2000, normalHigh |-> 2000, unit |-> "%", isPercent |-> TRUE]
  \* macd_dea: 'MACD DEA' (lines 108-115)
  @@ "macd_dea" :> [name |-> "MACD DEA", desc |-> "MACD slow line",
       min |-> -10000, max |-> 10000, normalLow |-> -2000, normalHigh |-> 2000, unit |-> "%", isPercent |-> TRUE]
  \* bollinger_width: '布林带宽度' (lines 116-123)
  @@ "bollinger_width" :> [name |-> "Bollinger width", desc |-> "deviation of the Bollinger bands from the middle band",
       min |-> 0, max |-> 30000, normalLow |-> 5000, normalHigh |-> 15000, unit |-> "%", isPercent |-> TRUE]
  \* volume_ma_deviation: '成交量均线偏离' (lines 124-131)
  @@ "volume_ma_deviation" :> [name |-> "volume MA deviation", desc |-> "deviation of volume from its 20-day mean",
       min |-> -80000, max |-> 200000, normalLow |-> -30000, normalHigh |-> 50000, unit |-> "%", isPercent |-> TRUE]
  \* price_volume_corr: '价量相关系数' (lines 132-138)
  @@ "price_volume_corr" :> [name |-> "price-volume correlation", desc |-> "correlation of price and volume over 20 days",
       min |-> -100000, max |-> 100000, normalLow |-> -30000, normalHigh |-> 30000, unit |-> ""]
  \* gap_frequency: '跳空缺口频率' (lines 139-146)
  @@ "gap_frequency" :> [name |-> "gap frequency", desc |-> "frequency of gaps above 1% in the past 60 trading days",
       min |-> 0, max |-> 30000, normalLow |-> 0, normalHigh |-> 10000, unit |-> "%", isPercent |-> TRUE]
  \* pe_percentile: 'PE分位数' (lines 149-156)
  @@ "pe_percentile" :> [name |-> "PE percentile", desc |-> "position of the PE ratio in its history",
       min |-> 0, max |-> 100000, normalLow |-> 20000, normalHigh |-> 80000, unit |-> "%", isPercent |-> TRUE]
  \* pb_percentile: 'PB分位数' (lines 157-164)
  @@ "pb_percentile" :> [name |-> "PB percentile", desc |-> "position of the PB ratio in its history",
       min |-> 0, max |-> 100000, normalLow |-> 20000, normalHigh |-> 80000, unit |-> "%", isPercent |-> TRUE]
  \* roe: 'ROE' (lines 165-172)
  @@ "roe" :> [name |-> "ROE", desc |-> "return on equity",
       min |-> -20000, max |-> 50000, normalLow |-> 8000, normalHigh |-> 15000, unit |-> "%", isPercent |-> TRUE]
  \* revenue_growth: '营收增长率' (lines 173-180)
  @@ "revenue_growth" :> [name |-> "revenue growth", desc |-> "year-on-year growth of revenue",
       min |-> -50000, max |-> 100000, normalLow |-> 10000, normalHigh |-> 30000, unit |-> "%", isPercent |-> TRUE]
  \* profit_growth: '利润增长率' (lines 181-188)
  @@ "profit_growth" :> [name |-> "profit growth", desc |-> "year-on-year growth of net profit",
       min |-> -100000, max |-> 200000, normalLow |-> 10000, normalHigh |-> 30000, unit |-> "%", isPercent |-> TRUE]
  \* amount_trend: '成交额趋势' (lines 191-198)
  @@ "amount_trend" :> [name |-> "amount trend", desc |-> "change of the 20-day mean amount against the 60-day mean",
       min |-> -50000, max |-> 100000, normalLow |-> -20000, normalHigh |-> 20000, unit |-> "%", isPercent |-> TRUE]
  \* volume_expansion: '量能放大倍数' (lines 199-205)
  @@ "volume_expansion" :> [name |-> "volume expansion", desc |-> "5-day mean volume over 20-day mean volume",
       min |-> 30000, max |-> 300000, normalLow |-> 80000, normalHigh |-> 150000, unit |-> "x"]
  \* money_flow_continuity: '资金流入连续性' (lines 206-213)
  @@ "money_flow_continuity" :> [name |-> "money flow continuity", desc |-> "share of days rising on higher volume",
       min |-> 0, max |-> 100000, normalLow |-> 20000, normalHigh |-> 40000, unit |-> "%", isPercent |-> TRUE]
  \* volume_price_up_prob: '放量上涨概率' (lines 214-221)
  @@ "volume_price_up_prob" :> [name |-> "volume-up probability", desc |-> "share of days with higher volume and a rise",
       min |-> 0, max |-> 100000, normalLow |-> 40000, normalHigh |-> 60000, unit |-> "%", isPercent |-> TRUE]
  \* high_volume_pullback_prob: '高位放量回撤概率' (lines 222-230)
  @@ "high_volume_pullback_prob" :> [name |-> "high-volume pullback probability", desc |-> "probability of a fall after high volume at a high",
       min |-> 0, max |-> 50000, normalLow |-> 0, normalHigh |-> 30000, unit |-> "%", isPercent |-> TRUE, inverse |-> TRUE]
  \* volume_concentration: '成交集中度' (lines 231-237)
  @@ "volume_concentration" :> [name |-> "volume concentration", desc |-> "coefficient of variation of volume",
       min |-> 0, max |-> 100000, normalLow |-> 20000, normalHigh |-> 50000, unit |-> ""]
  \* turnover: '换手率' (lines 240-246)
  @@ "turnover" :> [name |-> "turnover", desc |-> "current volume over the 60-day mean volume",
       min |-> 0, max |-> 500000, normalLow |-> 50000, normalHigh |-> 200000, unit |-> "x"]
  \* turnover_volatility: '换手率波动' (lines 247-253)
  @@ "turnover_volatility" :> [name |-> "turnover volatility", desc |-> "volatility of the 20-day turnover",
       min |-> 0, max |-> 50000, normalLow |-> 10000, normalHigh |-> 30000, unit |-> ""]
  \* chip_concentration: '筹码集中度' (lines 254-260)
  @@ "chip_concentration" :> [name |-> "chip concentration", desc |-> "coefficient of variation of the price",
       min |-> 0, max |-> 10000, normalLow |-> 2000, normalHigh |-> 5000, unit |-> ""]
  \* high_turnover_at_high: '高位换手率' (lines 261-269)
  @@ "high_turnover_at_high" :> [name |-> "turnover at high", desc |-> "turnover while the price is high",
       min |-> 0, max |-> 100000, normalLow |-> 0, normalHigh |-> 50000, unit |-> "%", isPercent |-> TRUE, inverse |-> TRUE]
  \* holding_stability: '持仓稳定度' (lines 270-276)
  @@ "holding_stability" :> [name |-> "holding stability", desc |-> "inverse of the turnover volatility",
       min |-> 0, max |-> 1000000, normalLow |-> 200000, normalHigh |-> 500000, unit |-> ""]
  \* vol_turnover_divergence: '波动-换手背离' (lines 277-283)
  @@ "vol_turnover_divergence" :> [name |-> "volatility-turnover divergence", desc |-> "divergence of price volatility and turnover change",
       min |-> -30000, max |-> 30000, normalLow |-> -10000, normalHigh |-> 10000, unit |-> ""]

\* Tables of definitions in which parts of a definition are absent: the fields
\* min, max, normalLow, normalHigh, unit, isPercent and inverse of FactorInfo
\* are all optional.
PARTIAL_INFOS ==
  "only_name" :> [name |-> "only name", desc |-> "no range, no band"]
  @@ "range_only" :> [name |-> "range only", desc |-> "no band",
       min |-> 0, max |-> 100000]
  @@ "range_unit" :> [name |-> "range and unit", desc |-> "no band",
       min |-> -50000, max |-> 50000, unit |-> "x", inverse |-> TRUE]
  @@ "band_only" :> [name |-> "band only", desc |-> "no range",
       normalLow |-> 20000, normalHigh |-> 80000, isPercent |-> TRUE]
  @@ "min_only" :> [name |-> "min only", desc |-> "no max",
       min |-> 0, normalLow |-> 20000, normalHigh |-> 80000, inverse |-> TRUE]
  @@ "max_only" :> [name |-> "max only", desc |-> "no min, no band",
       max |-> 100000]
  @@ "low_only" :> [name |-> "low only", desc |-> "no normalHigh",
       min |-> 0, max |-> 100000, normalLow |-> 20000]
  @@ "high_only" :> [name |-> "high only", desc |-> "no normalLow",
       min |-> 0, max |-> 100000, normalHigh |-> 80000, unit |-> ""]
  @@ "degenerate" :> [name |-> "degenerate", desc |-> "max equals min",
       min |-> 50000, max |-> 50000, normalLow |-> 50000, normalHigh |-> 50000]
  @@ "degenerate_zero" :> [name |-> "degenerate at zero", desc |-> "max equals min, no band",
       min |-> 0, max |-> 0]

\* The properties every object literal inherits from Object.prototype:
\* FACTOR_NAMES[key] finds them for a key that is no own property.  Both are
\* functions, with a name and a length and none of FactorInfo's fields.
ObjectPrototype ==
  "constructor" :> [name |-> "Object", length |-> 1]
  @@ "toString" :> [name |-> "toString", length |-> 0]

\* the configured table with normalLow of rsi_14 above its normalHigh
Table_BadBand ==
  IF registry = "FACTOR_NAMES"
  THEN [FACTOR_NAMES EXCEPT !["rsi_14"].normalLow = 8000000]
  ELSE PARTIAL_INFOS

\* The table the functions read: `registry` names it.
Table == IF registry = "FACTOR_NAMES" THEN FACTOR_NAMES ELSE PARTIAL_INFOS

\* FACTOR_NAMES[key]
Lookup(key) ==
  IF key \in DOMAIN Table THEN Table[key]
  ELSE IF key \in DOMAIN ObjectPrototype THEN ObjectPrototype[key]
  ELSE undefined

\* info.f !== undefined
Has(inf, f) == f \in DOMAIN inf

\* info.f is truthy, for a boolean field f
Truthy(inf, f) == Has(inf, f) /\ inf[f]

\* ------------------------------------------------------------- the functions

getFactorInfo(key) == Lookup(key)

\* FACTOR_NAMES[key]?.name || key
getFactorName(key) ==
  LET inf == Lookup(key) IN
  IF inf # undefined /\ Has(inf, "name") /\ inf.name # "" THEN inf.name ELSE key

\* FACTOR_NAMES[key]?.desc || ''
getFactorDesc(key) ==
  LET inf == Lookup(key) IN
  IF inf # undefined /\ Has(inf, "desc") /\ inf.desc # "" THEN inf.desc ELSE ""

Half == Quot(1, 2)

\* getValuePosition without the clamp
getValuePosition_NoClamp(key, v) ==
  LET inf == Lookup(key) IN
  IF inf = undefined \/ ~Has(inf, "min") \/ ~Has(inf, "max") THEN Half
  ELSE LET range == inf.max - inf.min IN
       IF range = 0 THEN Half
       ELSE Over(Minus(ToNumber(v), inf.min), range)

\* getValuePosition dividing the value itself, not its distance from min
getValuePosition_NoOffset(key, v) ==
  LET inf == Lookup(key) IN
  IF inf = undefined \/ ~Has(inf, "min") \/ ~Has(inf, "max") THEN Half
  ELSE LET range == inf.max - inf.min IN
       IF range = 0 THEN Half
       ELSE LET pos == Over(ToNumber(v), range)
            IN MathMax(Quot(0, 1), MathMin(Quot(1, 1), pos))

\* getValuePosition measuring from max downwards
getValuePosition_Reversed(key, v) ==
  LET inf == Lookup(key) IN
  IF inf = undefined \/ ~Has(inf, "min") \/ ~Has(inf, "max") THEN Half
  ELSE LET range == inf.max - inf.min IN
       IF range = 0 THEN Half
       ELSE LET pos == Over(Minus(ToNumber(v), inf.max), 0 - range)
            IN MathMax(Quot(0, 1), MathMin(Quot(1, 1), pos))

\* getValuePosition without the guard for an empty range: x / 0 is Infinity,
\* -Infinity or (for 0 / 0) NaN
getValuePosition_NoZeroGuard(key, v) ==
  LET inf == Lookup(key) IN
  IF inf = undefined \/ ~Has(inf, "min") \/ ~Has(inf, "max") THEN Half
  ELSE LET range == inf.max - inf.min
           d == Minus(ToNumber(v), inf.min)
           pos == IF range # 0 THEN Over(d, range)
                  ELSE IF d.k = "nan" \/ (d.k = "fin" /\ d.m = 0) THEN NaNQ
                  ELSE [k |-> "big", num |-> IF d.m > 0 THEN 1 ELSE -1, den |-> 1]
       IN MathMax(Quot(0, 1), MathMin(Quot(1, 1), pos))

getValuePosition(key, v) ==
  LET inf == Lookup(key) IN
  IF inf = undefined \/ ~Has(inf, "min") \/ ~Has(inf, "max") THEN Half
  ELSE LET range == inf.max - inf.min IN
       IF range = 0 THEN Half
       ELSE LET pos == Over(Minus(ToNumber(v), inf.min), range)
            IN MathMax(Quot(0, 1), MathMin(Quot(1, 1), pos))

isValueNormal(key, v) ==
  LET inf == Lookup(key) IN
  IF inf = undefined \/ ~Has(inf, "normalLow") \/ ~Has(inf, "normalHigh") THEN TRUE
  ELSE GreaterEq(ToNumber(v), inf.normalLow) /\ LessEq(ToNumber(v), inf.normalHigh)

\* '未知'
StatusUnknown == [text |-> "wei zhi", color |-> "gray"]

\* '偏低（利好）'
StatusLowGood == [text |-> "pian di (li hao)", color |-> "green"]

\* '偏低'
StatusLow == [text |-> "pian di", color |-> "blue"]

\* '偏高（风险）'
StatusHighRisk == [text |-> "pian gao (feng xian)", color |-> "red"]

\* '偏高'
StatusHigh == [text |-> "pian gao", color |-> "orange"]

\* '正常区间'
StatusNormal == [text |-> "zheng chang qu jian", color |-> "green"]

\* '低于合理范围'
StatusBelowRange == [text |-> "di yu he li fan wei", color |-> "blue"]

\* '超出合理范围'
StatusAboveRange == [text |-> "chao chu he li fan wei", color |-> "red"]

\* '合理'
StatusReasonable == [text |-> "he li", color |-> "green"]

\* getValueStatus that ignores `inverse`
getValueStatus_NoInverse(key, v) ==
  LET inf == Lookup(key)
      x == ToNumber(v)
  IN
  IF inf = undefined THEN StatusUnknown
  ELSE IF Has(inf, "normalLow") /\ Has(inf, "normalHigh")
  THEN IF Less(x, inf.normalLow) THEN StatusLow
       ELSE IF Greater(x, inf.normalHigh) THEN StatusHigh
       ELSE StatusNormal
  ELSE IF Has(inf, "min") /\ Has(inf, "max") /\ Less(x, inf.min) THEN StatusBelowRange
  ELSE IF Has(inf, "min") /\ Has(inf, "max") /\ Greater(x, inf.max) THEN StatusAboveRange
  ELSE StatusReasonable

\* getValueStatus that gives a key with no definition the in-band result
getValueStatus_UnknownIsNormal(key, v) ==
  LET inf == Lookup(key)
      x == ToNumber(v)
  IN
  IF inf = undefined THEN StatusNormal
  ELSE IF Has(inf, "normalLow") /\ Has(inf, "normalHigh")
  THEN IF Less(x, inf.normalLow)
       THEN (IF Truthy(inf, "inverse") THEN StatusLowGood ELSE StatusLow)
       ELSE IF Greater(x, inf.normalHigh)
       THEN (IF Truthy(inf, "inverse") THEN StatusHighRisk ELSE StatusHigh)
       ELSE StatusNormal
  ELSE IF Has(inf, "min") /\ Has(inf, "max") /\ Less(x, inf.min) THEN StatusBelowRange
  ELSE IF Has(inf, "min") /\ Has(inf, "max") /\ Greater(x, inf.max) THEN StatusAboveRange
  ELSE StatusReasonable

\* getValueStatus without the check against [min, max]
getValueStatus_NoRangeCheck(key, v) ==
  LET inf == Lookup(key)
      x == ToNumber(v)
  IN
  IF inf = undefined THEN StatusUnknown
  ELSE IF Has(inf, "normalLow") /\ Has(inf, "normalHigh")
  THEN IF Less(x, inf.normalLow)
       THEN (IF Truthy(inf, "inverse") THEN StatusLowGood ELSE StatusLow)
       ELSE IF Greater(x, inf.normalHigh)
       THEN (IF Truthy(inf, "inverse") THEN StatusHighRisk ELSE StatusHigh)
       ELSE StatusNormal
  ELSE StatusReasonable

\* getValueStatus with the band open at both ends
getValueStatus_OpenBand(key, v) ==
  LET inf == Lookup(key)
      x == ToNumber(v)
  IN
  IF inf = undefined THEN StatusUnknown
  ELSE IF Has(inf, "normalLow") /\ Has(inf, "normalHigh")
  THEN IF LessEq(x, inf.normalLow)
       THEN (IF Truthy(inf, "inverse") THEN StatusLowGood ELSE StatusLow)
       ELSE IF GreaterEq(x, inf.normalHigh)
       THEN (IF Truthy(inf, "inverse") THEN StatusHighRisk ELSE StatusHigh)
       ELSE StatusNormal
  ELSE IF Has(inf, "min") /\ Has(inf, "max") /\ Less(x, inf.min) THEN StatusBelowRange
  ELSE IF Has(inf, "min") /\ Has(inf, "max") /\ Greater(x, inf.max) THEN StatusAboveRange
  ELSE StatusReasonable

getValueStatus(key, v) ==
  LET inf == Lookup(key)
      x == ToNumber(v)
  IN
  IF inf = undefined THEN StatusUnknown
  ELSE IF Has(inf, "normalLow") /\ Has(inf, "normalHigh")
  THEN IF Less(x, inf.normalLow)
       THEN (IF Truthy(inf, "inverse") THEN StatusLowGood ELSE StatusLow)
       ELSE IF Greater(x, inf.normalHigh)
       THEN (IF Truthy(inf, "inverse") THEN StatusHighRisk ELSE StatusHigh)
       ELSE StatusNormal
  ELSE IF Has(inf, "min") /\ Has(inf, "max") /\ Less(x, inf.min) THEN StatusBelowRange
  ELSE IF Has(inf, "min") /\ Has(inf, "max") /\ Greater(x, inf.max) THEN StatusAboveRange
  ELSE StatusReasonable

\* info.unit || '', as characters (every unit is at most one character)
UnitOrEmpty(inf) ==
  IF Has(inf, "unit") /\ inf.unit # "" THEN <<inf.unit>> ELSE <<>>

\* formatFactorValue without the test for a missing value: toFixed is applied
\* to the marker's number
formatFactorValue_NoMissingCheck(key, v) ==
  LET inf == Lookup(key)
      x == ToNumber(v)
  IN
  IF inf = undefined THEN toFixed(x, 4)
  ELSE IF Truthy(inf, "isPercent") THEN toFixed(Times100(x), 2) \o <<"%">>
  ELSE toFixed(x, 4) \o UnitOrEmpty(inf)

\* formatFactorValue without the test for a missing value: toFixed is read
\* from the marker itself
formatFactorValue_Unguarded(key, v) ==
  LET inf == Lookup(key) IN
  IF inf = undefined THEN toFixed(v, 4)
  ELSE IF Truthy(inf, "isPercent") THEN Concat(toFixed(v, 2), <<"%">>)
  ELSE Concat(toFixed(v, 4), UnitOrEmpty(inf))

formatFactorValue(key, v) ==
  IF v.k = "null" \/ v.k = "undefined" THEN <<"-", "-">>
  ELSE LET inf == Lookup(key) IN
       IF inf = undefined THEN toFixed(v, 4)
       ELSE IF Truthy(inf, "isPercent") THEN Concat(toFixed(Times100(v), 2), <<"%">>)
       ELSE Concat(toFixed(v, 4), UnitOrEmpty(inf))

\* ------------------------------------------------------------------ inputs

\* The tables a run is checked with: the configured one, and the partial one.
Registries == {"FACTOR_NAMES", "PARTIAL_INFOS"}

\* Keys that are no own property of either table.
OtherKeys == {"unknown_factor", "constructor", "toString"}

Keys == DOMAIN Table \cup OtherKeys

Thresholds(inf) ==
  {inf[f] : f \in {"min", "max", "normalLow", "normalHigh"} \cap DOMAIN inf}

\* Readings tried with every key: the missing markers, numbers at and beyond
\* the toFixed limit, zero, the examples -0.20, -0.10, -0.02, 0.0234, 55.1234,
\* the binary tie 0.03125, the smallest negative number, and +-1000.
CommonValues ==
  {null, undefined, Big(1, 21), Big(-1, 21)}
  \cup {Fin(m) : m \in {0, -20000, -10000, -2000, 2340, 5512340, 3125, -1,
                        100000000, -100000000}}

Values(key) ==
  CommonValues
  \cup (IF key \in DOMAIN Table
        THEN {Fin(t + o) : t \in Thresholds(Table[key]), o \in (0 - MaxOffset)..MaxOffset}
        ELSE {})

\* ---------------------------------------------------------------- industry

\* The table of getIndustryMapping.  industry and theme are English renderings
\* of the source's Chinese strings.
mappings ==
  \* TSLA.US: industry '新能源汽车/人形机器人', theme '人形机器人' (lines 619-623)
  "TSLA.US" :> [industry |-> "new energy vehicles/humanoid robots", theme |-> "humanoid robots",
       relatedStocks |-> <<"TSLA.US", "NVDA.US", "INTC.US", "ADVANCED_MICRO_DEVICES.US">>]
  \* NVDA.US: industry '半导体/AI算力', theme 'AI芯片/人形机器人' (lines 624-628)
  @@ "NVDA.US" :> [industry |-> "semiconductors/AI compute", theme |-> "AI chips/humanoid robots",
       relatedStocks |-> <<"NVDA.US", "AMD.US", "INTC.US", "QCOM.US", "TSLA.US">>]
  \* SPCE.US: industry '商业航天', theme '商业航天' (lines 630-634)
  @@ "SPCE.US" :> [industry |-> "commercial space", theme |-> "commercial space",
       relatedStocks |-> <<"SPCE.US", "RKLB.US", "ASTS.US", "MNTS.US">>]
  \* RKLB.US: industry '商业航天/火箭发射', theme '商业航天' (lines 635-639)
  @@ "RKLB.US" :> [industry |-> "commercial space/rocket launch", theme |-> "commercial space",
       relatedStocks |-> <<"RKLB.US", "SPCE.US", "ASTS.US", "MNTS.US", "LMT.US">>]
  \* MU.US: industry '半导体/存储芯片', theme '存储芯片' (lines 641-645)
  @@ "MU.US" :> [industry |-> "semiconductors/memory chips", theme |-> "memory chips",
       relatedStocks |-> <<"MU.US", "WDC.US", "STX.US", "NVDA.US", "AMD.US">>]
  \* WDC.US: industry '半导体/存储芯片', theme '存储芯片' (lines 646-650)
  @@ "WDC.US" :> [industry |-> "semiconductors/memory chips", theme |-> "memory chips",
       relatedStocks |-> <<"WDC.US", "MU.US", "STX.US", "NVDA.US">>]
  \* AAPL.US: industry '消费电子/科技', theme '科技巨头' (lines 652-656)
  @@ "AAPL.US" :> [industry |-> "consumer electronics/technology", theme |-> "technology giants",
       relatedStocks |-> <<"AAPL.US", "MSFT.US", "GOOGL.US", "AMZN.US", "META.US">>]
  \* MSFT.US: industry '软件/云计算', theme '云计算/AI' (lines 657-661)
  @@ "MSFT.US" :> [industry |-> "software/cloud computing", theme |-> "cloud computing/AI",
       relatedStocks |-> <<"MSFT.US", "GOOGL.US", "AMZN.US", "NVDA.US", "CRM.US">>]
  \* 00700.HK: industry '互联网/游戏', theme '互联网巨头' (lines 663-667)
  @@ "00700.HK" :> [industry |-> "internet/games", theme |-> "internet giants",
       relatedStocks |-> <<"00700.HK", "09988.HK", "03690.HK", "01024.HK", "09618.HK">>]
  \* 09988.HK: industry '电商/云计算', theme '电商/AI' (lines 668-672)
  @@ "09988.HK" :> [industry |-> "e-commerce/cloud computing", theme |-> "e-commerce/AI",
       relatedStocks |-> <<"09988.HK", "00700.HK", "09618.HK", "01024.HK", "PDD.US">>]
  \* BABA.US: industry '电商/云计算', theme '中概电商' (lines 673-677)
  @@ "BABA.US" :> [industry |-> "e-commerce/cloud computing", theme |-> "China-concept e-commerce",
       relatedStocks |-> <<"BABA.US", "JD.US", "PDD.US", "00700.HK", "09988.HK">>]

\* '综合', '综合板块' and the queried symbol before the two benchmarks
DefaultMapping(sym) ==
  [industry |-> "zong he", theme |-> "zong he ban kuai",
   relatedStocks |-> <<sym, "SPY.US", "QQQ.US">>]

\* String.prototype.toUpperCase on the symbols used here
ToUpperCase(sym) ==
  CASE sym \in {"aapl.us", "Aapl.US"} -> "AAPL.US"
    [] sym = "tsla.us" -> "TSLA.US"
    [] sym = "00700.hk" -> "00700.HK"
    [] OTHER -> sym

\* getIndustryMapping looking the symbol up in upper case
getIndustryMapping_IgnoreCase(sym) ==
  IF ToUpperCase(sym) \in DOMAIN mappings THEN mappings[ToUpperCase(sym)]
  ELSE IF sym \in DOMAIN ObjectPrototype THEN ObjectPrototype[sym]
  ELSE DefaultMapping(sym)

\* mappings[symbol] || { the default }: mappings is an object literal, so the
\* lookup finds what it inherits from Object.prototype too, and a function is
\* truthy.
getIndustryMapping(sym) ==
  IF sym \in DOMAIN mappings THEN mappings[sym]
  ELSE IF sym \in DOMAIN ObjectPrototype THEN ObjectPrototype[sym]
  ELSE DefaultMapping(sym)

Val(v) == [k |-> "value", v |-> v]

\* obj.f
Field(obj, f) == IF f \in DOMAIN obj THEN Val(obj[f]) ELSE undefined

\* relatedStocks.slice(0, 5)
Slice5(list) == SubSeq(list, 1, IF Len(list) < 5 THEN Len(list) ELSE 5)

\* What a request for `stock` can come to: fetch rejects; the response is not
\* ok; its body has an error field; or the body is an analysis, which has no
\* symbol field, or the requested symbol, or another one.
Responses(stock) ==
  {[kind |-> kd, hasSymbol |-> FALSE, symbol |-> ""] :
     kd \in {"rejected", "not ok", "error field", "data"}}
  \cup {[kind |-> "data", hasSymbol |-> TRUE, symbol |-> sy] : sy \in {stock, "ECHO.US"}}

\* { symbol: stock, ...data }: a symbol field of data replaces stock.  `stock`
\* records which request the entry answers.
ResultEntry(stock, data) ==
  [stock |-> stock, symbol |-> IF data.hasSymbol THEN data.symbol ELSE stock]

\* k.includes(f)
Includes(k, f) ==
  \E i \in 1..(Len(k) - Len(f) + 1) : SubSeq(k, i, i + Len(f) - 1) = f

\* the groups of getFactorCategories: '技术面', '波动率', '资金面', '筹码面' and
\* the fragments a key of each contains
CategoryFragments ==
  << [category |-> "ji shu mian",
      fragments |-> {"momentum", "rsi", "macd", "bollinger", "volume", "gap", "up_days"}],
     [category |-> "bo dong lv", fragments |-> {"volatility", "drawdown", "atr"}],
     [category |-> "zi jin mian", fragments |-> {"amount", "money_flow", "volume_expansion"}],
     [category |-> "chou ma mian", fragments |-> {"turnover", "chip", "holding"}] >>

\* Object.entries(factors).filter(([k]) => [..].some(f => k.includes(f))), as
\* the keys of the entries kept
FilterFactors(factors, fragments) ==
  SelectSeq(factors, LAMBDA k : \E f \in fragments : Includes(k, f))

\* getFactorCategories for an analysis result (or none) whose latest_factors
\* has the keys `factors`
getFactorCategories(present, factors) ==
  IF ~present THEN <<>>
  ELSE [i \in 1..Len(CategoryFragments) |->
          [category |-> CategoryFragments[i].category,
           factors |-> FilterFactors(factors, CategoryFragments[i].fragments)]]

\* What the request to the Kimi API can come to: fetch rejects; the response
\* is not ok (401, or another status with or without an error message, or a
\* body that is not JSON); or it is ok, with a report, with an empty content,
\* without choices, or with a body that is not JSON.
KimiResponses ==
  {"rejected", "401", "not ok, message", "not ok, no message", "not ok, no JSON",
   "ok, content", "ok, empty content", "ok, no choices", "ok, no JSON"}

\* err?.message || '未知错误' for what is thrown on each failure
ErrorMessage(failure) ==
  CASE failure = "rejected" -> "Failed to fetch"
    [] failure = "401" -> "Kimi API Key wu xiao huo yi guo qi"
    [] failure = "not ok, message" -> "rate limited"
    [] failure = "not ok, no message" -> "Kimi API diao yong shi bai (HTTP 500)"
    [] failure \in {"not ok, no JSON", "ok, no JSON"} -> "Unexpected token"
    [] failure = "ok, no choices" -> "Cannot read properties of undefined"
    [] failure = "analyzeIndustryStocks" -> "Cannot read properties of undefined"
    [] failure = "prompt" -> "Cannot read properties of undefined"
    [] OTHER -> "wei zhi cuo wu"

\* ------------------------------------------------------------------ inputs

\* Symbols that differ from a key of the table in case or in market suffix only.
VariantSymbols ==
  {"aapl.us", "Aapl.US", "AAPL", "AAPL.HK", "tsla.us", "00700.hk", "00700", "BABA"}

\* The symbols a run is checked with; an analysis result may have none ("").
Symbols ==
  DOMAIN mappings \cup VariantSymbols \cup {"ZZZZ.US", "constructor", "toString", ""}

\* The symbols generateResearchReport is checked with: a configured one, an
\* unknown one, an inherited property name, and none.
ReportSymbols == {"NVDA.US", "ZZZZ.US", "constructor", ""}

\* The latest_factors a grouping is checked with: each configured key alone,
\* all of them, a key that is not configured, and none.
FactorLists ==
  {<<k>> : k \in DOMAIN FACTOR_NAMES \cup {"unknown_factor"}}
  \cup {<<>>,
        <<"momentum_5d", "volatility_20d", "amount_trend", "turnover",
          "volume_expansion", "pe_percentile">>}

\* ------------------------------------------------------------ the machine

NotYet == [k |-> "pending"]

\* the factor card, about to make its calls for a reading
CardStart ==
  /\ registry \in Registries
  /\ name \in Keys
  /\ value \in Values(name)
  /\ pc = "getFactorInfo"

CardIdle ==
  /\ registry = "FACTOR_NAMES"
  /\ name = "momentum_5d"
  /\ value = Fin(0)
  /\ pc = "idle"

\* an analysis result with a symbol has arrived (or there is none); the
\* session may be open or not; analyzeIndustryStocks is called on its own or
\* generateResearchReport is, with or without a Kimi API key
IndustryStart ==
  /\ \/ /\ rpc = "idle"
        /\ symbol \in Symbols
        /\ kimiApiKey = ""
     \/ /\ rpc = "generateResearchReport"
        /\ symbol \in ReportSymbols
        /\ kimiApiKey \in {"", "sk-kimi"}
  /\ hasResult \in (IF symbol = "" THEN BOOLEAN ELSE {TRUE})
  /\ sessionId \in {"", "session-1"}
  /\ ipc = "useEffect"

IndustryIdle ==
  /\ symbol = ""
  /\ ipc = "idle"
  /\ rpc = "idle"
  /\ kimiApiKey = ""

\* the factor tab is rendered for an analysis result, or for none
CategoriesStart ==
  /\ hasResult \in BOOLEAN
  /\ latestFactors \in (IF hasResult THEN FactorLists ELSE {<<>>})
  /\ cpc = "getFactorCategories"

CategoriesIdle ==
  /\ latestFactors = <<>>
  /\ cpc = "idle"

\* a user who may be logged in, with or without a session, positions and results
AccountStart ==
  /\ phoneAuthToken \in {null, Val("token-1")}
  /\ localStorage \in [{"auth_token", "user_info"} -> {null, Val("stored")}]
  /\ userInfo \in {null, Val("user-1")}
  /\ hasLongBridgeCredentials \in BOOLEAN
  /\ isAuthenticated \in BOOLEAN
  /\ sessionId \in {"", "session-1"}
  /\ holdings \in {<<>>, <<"AAPL.US">>}
  /\ watchlist \in {<<>>, <<"TSLA.US">>}
  /\ portfolioAnalysisResults \in {<<>>, <<"AAPL.US">>}
  /\ hasResult \in BOOLEAN
  /\ lpc = "handleLogout"

AccountIdle ==
  /\ phoneAuthToken = null
  /\ localStorage = [key \in {"auth_token", "user_info"} |-> null]
  /\ userInfo = null
  /\ hasLongBridgeCredentials = FALSE
  /\ isAuthenticated = FALSE
  /\ holdings = <<>>
  /\ watchlist = <<>>
  /\ portfolioAnalysisResults = <<>>
  /\ lpc = "idle"

Init ==
  /\ \/ /\ CardStart /\ IndustryIdle /\ CategoriesIdle /\ AccountIdle
        /\ hasResult = FALSE /\ sessionId = ""
     \/ /\ CardIdle /\ IndustryStart /\ CategoriesIdle /\ AccountIdle
     \/ /\ CardIdle /\ IndustryIdle /\ CategoriesStart /\ AccountIdle
        /\ sessionId = ""
     \/ /\ CardIdle /\ IndustryIdle /\ CategoriesIdle /\ AccountStart
  /\ info = NotYet
  /\ position = NotYet
  /\ status = NotYet
  /\ isNormal = FALSE
  /\ factorName = ""
  /\ factorDesc = ""
  /\ formatted = <<>>
  /\ mapping = NotYet
  /\ detectedIndustry = Val("")
  /\ researchTopic = Val("")
  /\ relatedStocks = Val(<<>>)
  /\ stocksToAnalyze = <<>>
  /\ requested = <<>>
  /\ outcomes = <<>>
  /\ results = <<>>
  /\ categories = <<>>
  /\ error = ""
  /\ researchReport = ""
  /\ generatingReport = FALSE
  /\ analyzingIndustry = FALSE
  /\ industryAnalysisData = <<>>

\* getFactorInfo that files the key it is asked about: the table read
\* afterwards is another one
GetFactorInfo_Registering ==
  /\ pc = "getFactorInfo"
  /\ info' = getFactorInfo(name)
  /\ registry' = IF name \in DOMAIN Table THEN registry ELSE "PARTIAL_INFOS"
  /\ pc' = "getValuePosition"
  /\ UNCHANGED <<name, value, position, status, isNormal,
                 factorName, factorDesc, formatted, industryVars, categoryVars,
                 reportVars, accountVars>>

GetFactorInfo ==
  /\ pc = "getFactorInfo"
  /\ info' = getFactorInfo(name)
  /\ pc' = "getValuePosition"
  /\ UNCHANGED <<registry, name, value, position, status, isNormal,
                 factorName, factorDesc, formatted, industryVars, categoryVars, reportVars, accountVars>>

GetValuePosition ==
  /\ pc = "getValuePosition"
  /\ position' = getValuePosition(name, value)
  /\ pc' = "getValueStatus"
  /\ UNCHANGED <<registry, name, value, info, status, isNormal,
                 factorName, factorDesc, formatted, industryVars, categoryVars, reportVars, accountVars>>

GetValueStatus ==
  /\ pc = "getValueStatus"
  /\ status' = getValueStatus(name, value)
  /\ pc' = "isValueNormal"
  /\ UNCHANGED <<registry, name, value, info, position, isNormal,
                 factorName, factorDesc, formatted, industryVars, categoryVars, reportVars, accountVars>>

IsValueNormal ==
  /\ pc = "isValueNormal"
  /\ isNormal' = isValueNormal(name, value)
  /\ pc' = "getFactorName"
  /\ UNCHANGED <<registry, name, value, info, position, status,
                 factorName, factorDesc, formatted, industryVars, categoryVars, reportVars, accountVars>>

GetFactorName ==
  /\ pc = "getFactorName"
  /\ factorName' = getFactorName(name)
  /\ pc' = "getFactorDesc"
  /\ UNCHANGED <<registry, name, value, info, position, status, isNormal,
                 factorDesc, formatted, industryVars, categoryVars, reportVars, accountVars>>

GetFactorDesc ==
  /\ pc = "getFactorDesc"
  /\ factorDesc' = getFactorDesc(name)
  /\ pc' = "formatFactorValue"
  /\ UNCHANGED <<registry, name, value, info, position, status, isNormal,
                 factorName, formatted, industryVars, categoryVars, reportVars, accountVars>>

\* a TypeError leaves the card's callback
FormatFactorValue ==
  /\ pc = "formatFactorValue"
  /\ formatted' = formatFactorValue(name, value)
  /\ pc' = IF formatted' = TypeError THEN "thrown" ELSE "done"
  /\ UNCHANGED <<registry, name, value, info, position, status, isNormal,
                 factorName, factorDesc, industryVars, categoryVars, reportVars, accountVars>>

\* the effect on analysisResult?.symbol
DetectIndustry ==
  /\ ipc = "useEffect"
  /\ IF symbol # ""
     THEN /\ mapping' = getIndustryMapping(symbol)
          /\ detectedIndustry' = Field(mapping', "theme")
          /\ relatedStocks' = Field(mapping', "relatedStocks")
          /\ researchTopic' = Field(mapping', "theme")
     ELSE UNCHANGED <<mapping, detectedIndustry, relatedStocks, researchTopic>>
  /\ ipc' = "analyze"
  /\ UNCHANGED <<symbol, sessionId, stocksToAnalyze, requested, outcomes, results,
                 cardVars, categoryVars, reportVars, accountVars>>

\* analyzeIndustryStocks up to its loop: it returns [] without a session or
\* without peers, and reading the length of undefined rejects its promise
AnalyzeStart ==
  /\ ipc = "analyze"
  /\ rpc \in {"idle", "analyzing"}
  /\ IF sessionId = "" THEN ipc' = "returned" /\ UNCHANGED stocksToAnalyze
     ELSE IF relatedStocks = undefined THEN ipc' = "rejected" /\ UNCHANGED stocksToAnalyze
     ELSE IF Len(relatedStocks.v) = 0 THEN ipc' = "returned" /\ UNCHANGED stocksToAnalyze
     ELSE /\ stocksToAnalyze' = Slice5(relatedStocks.v)
          /\ ipc' = "fetch"
  /\ UNCHANGED <<symbol, sessionId, mapping, detectedIndustry, researchTopic,
                 relatedStocks, requested, outcomes, results,
                 cardVars, categoryVars, reportVars, accountVars>>

\* the loop without its try: a request that rejects ends the loop
FetchStock_AbortOnReject ==
  /\ ipc = "fetch"
  /\ LET stock == stocksToAnalyze[Len(requested) + 1] IN
     \E r \in Responses(stock) :
       /\ requested' = Append(requested, stock)
       /\ outcomes' = Append(outcomes, r.kind)
       /\ results' = IF r.kind = "data" THEN Append(results, ResultEntry(stock, r))
                     ELSE results
       /\ ipc' = IF Len(requested') = Len(stocksToAnalyze) \/ r.kind = "rejected"
                 THEN "returned" ELSE "fetch"
  /\ UNCHANGED <<symbol, sessionId, mapping, detectedIndustry, researchTopic,
                 relatedStocks, stocksToAnalyze,
                 cardVars, categoryVars, reportVars, accountVars>>

\* one turn of the loop: the request for the next stock and what comes of it
FetchStock ==
  /\ ipc = "fetch"
  /\ LET stock == stocksToAnalyze[Len(requested) + 1] IN
     \E r \in Responses(stock) :
       /\ requested' = Append(requested, stock)
       /\ outcomes' = Append(outcomes, r.kind)
       /\ results' = IF r.kind = "data" THEN Append(results, ResultEntry(stock, r))
                     ELSE results
       /\ ipc' = IF Len(requested') = Len(stocksToAnalyze) THEN "returned" ELSE "fetch"
  /\ UNCHANGED <<symbol, sessionId, mapping, detectedIndustry, researchTopic,
                 relatedStocks, stocksToAnalyze,
                 cardVars, categoryVars, reportVars, accountVars>>

\* the render of the factor tab calls getFactorCategories
GetFactorCategories ==
  /\ cpc = "getFactorCategories"
  /\ categories' = getFactorCategories(hasResult, latestFactors)
  /\ cpc' = "done"
  /\ UNCHANGED <<hasResult, latestFactors, cardVars, industryVars, reportVars, accountVars>>

\* the catch block without the finally block
CatchAndFinally_NoFinally(failure) ==
  /\ error' = "bao gao sheng cheng shi bai: " \o ErrorMessage(failure)
  /\ researchReport' = ""
  /\ UNCHANGED <<generatingReport, analyzingIndustry>>
  /\ rpc' = "caught"

\* the catch and finally blocks of generateResearchReport, for what was thrown
CatchAndFinally(failure) ==
  /\ error' = "bao gao sheng cheng shi bai: " \o ErrorMessage(failure)
  /\ researchReport' = ""
  /\ generatingReport' = FALSE
  /\ analyzingIndustry' = FALSE
  /\ rpc' = "caught"

\* generateResearchReport up to its call of analyzeIndustryStocks
GenerateStart ==
  /\ rpc = "generateResearchReport"
  /\ ipc = "analyze"
  /\ IF kimiApiKey = ""
     THEN /\ error' = "qing shu ru Kimi API Key"
          /\ rpc' = "refused"
          /\ UNCHANGED <<researchReport, generatingReport, analyzingIndustry>>
     ELSE IF ~hasResult
     THEN /\ error' = "qing xian fen xi gu piao shu ju"
          /\ rpc' = "refused"
          /\ UNCHANGED <<researchReport, generatingReport, analyzingIndustry>>
     ELSE /\ generatingReport' = TRUE
          /\ analyzingIndustry' = TRUE
          /\ error' = ""
          /\ researchReport' = "zheng zai fen xi tong ban kuai gu piao shu ju"
          /\ rpc' = "analyzing"
  /\ UNCHANGED <<kimiApiKey, industryAnalysisData, cardVars, industryVars, categoryVars,
                 accountVars>>

\* analyzeIndustryStocks has settled: its rejection is caught; otherwise its
\* result is kept and the prompt is built, which the result's fields may
\* make throw
BuildPrompt ==
  /\ rpc = "analyzing"
  /\ ipc \in {"returned", "rejected"}
  /\ IF ipc = "rejected"
     THEN CatchAndFinally("analyzeIndustryStocks") /\ UNCHANGED industryAnalysisData
     ELSE /\ industryAnalysisData' = results
          /\ \/ /\ rpc' = "kimi"
                /\ UNCHANGED <<error, researchReport, generatingReport, analyzingIndustry>>
             \/ CatchAndFinally("prompt")
  /\ UNCHANGED <<kimiApiKey, cardVars, industryVars, categoryVars, accountVars>>

\* the request to the Kimi API and what comes of it, to the end of the function
CallKimi ==
  /\ rpc = "kimi"
  /\ \E r \in KimiResponses :
       IF r = "ok, content"
       THEN /\ researchReport' = "report"
            /\ generatingReport' = FALSE
            /\ analyzingIndustry' = FALSE
            /\ rpc' = "completed"
            /\ UNCHANGED error
       ELSE IF r = "ok, empty content"
       THEN /\ researchReport' = "sheng cheng bao gao shi bai"
            /\ generatingReport' = FALSE
            /\ analyzingIndustry' = FALSE
            /\ rpc' = "completed"
            /\ UNCHANGED error
       ELSE CatchAndFinally(r)
  /\ UNCHANGED <<kimiApiKey, industryAnalysisData, cardVars, industryVars, categoryVars,
                 accountVars>>

\* handleLogout that also empties the portfolio
HandleLogout_ClearsPortfolio ==
  /\ lpc = "handleLogout"
  /\ localStorage' = [key \in {"auth_token", "user_info"} |-> null]
  /\ phoneAuthToken' = null
  /\ userInfo' = null
  /\ hasLongBridgeCredentials' = FALSE
  /\ isAuthenticated' = FALSE
  /\ sessionId' = ""
  /\ holdings' = <<>>
  /\ watchlist' = <<>>
  /\ lpc' = "done"
  /\ UNCHANGED <<portfolioAnalysisResults,
                 symbol, ipc, mapping, detectedIndustry, researchTopic, relatedStocks,
                 stocksToAnalyze, requested, outcomes, results,
                 cardVars, categoryVars, reportVars>>

HandleLogout ==
  /\ lpc = "handleLogout"
  /\ localStorage' = [key \in {"auth_token", "user_info"} |-> null]
  /\ phoneAuthToken' = null
  /\ userInfo' = null
  /\ hasLongBridgeCredentials' = FALSE
  /\ isAuthenticated' = FALSE
  /\ sessionId' = ""
  /\ lpc' = "done"
  /\ UNCHANGED <<holdings, watchlist, portfolioAnalysisResults,
                 symbol, ipc, mapping, detectedIndustry, researchTopic, relatedStocks,
                 stocksToAnalyze, requested, outcomes, results,
                 cardVars, categoryVars, reportVars>>

Next ==
  \/ GetFactorInfo
  \/ GetValuePosition
  \/ GetValueStatus
  \/ IsValueNormal
  \/ GetFactorName
  \/ GetFactorDesc
  \/ FormatFactorValue
  \/ DetectIndustry
  \/ AnalyzeStart
  \/ FetchStock
  \/ GetFactorCategories
  \/ GenerateStart
  \/ BuildPrompt
  \/ CallKimi
  \/ HandleLogout

Spec == Init /\ [][Next]_vars

\* Every request settles and every callback that is due runs.
FairSpec == Spec /\ WF_vars(Next)

\* ------------------------------------------------------------------ claims

InfoDone == pc \notin {"idle", "getFactorInfo"}

PositionDone == InfoDone /\ pc # "getValuePosition"

StatusDone == PositionDone /\ pc # "getValueStatus"

DescribeDone == pc \in {"formatFactorValue", "done", "thrown"}

FormatDone == pc = "done"

MappingDone == ipc \notin {"idle", "useEffect"} /\ mapping # NotYet

\* a finite number: neither a missing marker nor NaN
Finite(v) == v.k \in {"fin", "big"}

Missing(v) == v.k \in {"null", "undefined"}

\* a <= b for two finite numbers
NumLe(a, b) ==
  CASE a.k = "big" /\ b.k = "big" -> a.m <= b.m
    [] a.k = "big" -> a.m < 0
    [] b.k = "big" -> b.m > 0
    [] OTHER -> a.m <= b.m

HasRange(inf) == inf # undefined /\ Has(inf, "min") /\ Has(inf, "max")

HasBand(inf) == inf # undefined /\ Has(inf, "normalLow") /\ Has(inf, "normalHigh")

\* C1: for every factor key, registered or not, and every finite value, the
\* position getValuePosition returns is a number in [0,1]: a value outside
\* [min,max] is clamped.
C1_PositionInUnitInterval ==
  (PositionDone /\ Finite(value)) =>
    /\ position.k = "fin"
    /\ QLe(Quot(0, 1), position)
    /\ QLe(position, Quot(1, 1))

\* C1 witness: a registered factor's value above max was clamped to 1.
C1_Witness ==
  /\ PositionDone
  /\ registry = "FACTOR_NAMES"
  /\ name = "rsi_14"
  /\ value = Fin(10000000 + 1)
  /\ QEq(position, Quot(1, 1))

\* C2: for every definition with min < max the position is exactly 0 at
\* value = min and exactly 1 at value = max; for momentum_5d the values -0.2,
\* 0.2 and 0.0 have the positions 0, 1 and 0.5.
C2_PositionAtEnds ==
  LET inf == Lookup(name) IN
  (PositionDone /\ HasRange(inf) /\ value.k = "fin") =>
    /\ (inf.min < inf.max /\ value.m = inf.min) => QEq(position, Quot(0, 1))
    /\ (inf.min < inf.max /\ value.m = inf.max) => QEq(position, Quot(1, 1))
    /\ (registry = "FACTOR_NAMES" /\ name = "momentum_5d") =>
         /\ value = Fin(-20000) => QEq(position, Quot(0, 1))
         /\ value = Fin(20000) => QEq(position, Quot(1, 1))
         /\ value = Fin(0) => QEq(position, Half)

\* C2 witness: momentum_5d at 0.0 has the position 0.5.
C2_Witness ==
  /\ PositionDone
  /\ registry = "FACTOR_NAMES"
  /\ name = "momentum_5d"
  /\ value = Fin(0)
  /\ QEq(position, Half)

\* C3: for a fixed factor key the position is monotonic non-decreasing in the
\* value: every finite value at or above the reading's has a position at or
\* above the reading's.
C3_PositionMonotonic ==
  (PositionDone /\ Finite(value)) =>
    \A v2 \in Values(name) :
      (Finite(v2) /\ NumLe(value, v2)) => QLe(position, getValuePosition(name, v2))

\* C3 witness: a reading strictly inside the range, with a larger value whose
\* position is strictly larger.
C3_Witness ==
  /\ PositionDone
  /\ registry = "FACTOR_NAMES"
  /\ Finite(value)
  /\ ~QEq(position, Quot(0, 1))
  /\ ~QEq(position, Quot(1, 1))
  /\ \E v2 \in Values(name) :
       Finite(v2) /\ NumLe(value, v2) /\ ~QLe(getValuePosition(name, v2), position)

\* C4: the position is the sentinel 0.5 for every value, missing ones too, when
\* the key has no definition, or the definition has no min or no max, or
\* max equals min.
C4_PositionSentinel ==
  LET inf == Lookup(name) IN
  (PositionDone /\ (~HasRange(inf) \/ inf.max = inf.min)) => QEq(position, Half)

\* C4 witness: a definition with max = min, and a value above both.
C4_Witness ==
  /\ PositionDone
  /\ registry = "PARTIAL_INFOS"
  /\ name = "degenerate"
  /\ value = Fin(50000 + 1)
  /\ QEq(position, Half)

\* the (region, inverse) table of the status of a banded factor
BandTable ==
  [region \in {"below", "inside", "above"}, inverse \in BOOLEAN |->
     CASE region = "inside" -> [text |-> "zheng chang qu jian", color |-> "green"]
       [] region = "below" /\ inverse -> [text |-> "pian di (li hao)", color |-> "green"]
       [] region = "below" /\ ~inverse -> [text |-> "pian di", color |-> "blue"]
       [] region = "above" /\ inverse -> [text |-> "pian gao (feng xian)", color |-> "red"]
       [] region = "above" /\ ~inverse -> [text |-> "pian gao", color |-> "orange"]]

\* where a finite number lies relative to [normalLow, normalHigh]
Region(v, inf) ==
  IF ~NumLe(Fin(inf.normalLow), v) THEN "below"
  ELSE IF ~NumLe(v, Fin(inf.normalHigh)) THEN "above"
  ELSE "inside"

\* C5: for a definition with normalLow and normalHigh the status is the entry
\* of the (region, inverse) table; for max_drawdown_60d, -0.20 is below-band
\* inverse, -0.02 is above-band inverse and -0.10 is in-band.
C5_BandTable ==
  LET inf == Lookup(name) IN
  (StatusDone /\ HasBand(inf) /\ Finite(value)) =>
    /\ status = BandTable[Region(value, inf), Truthy(inf, "inverse")]
    /\ (registry = "FACTOR_NAMES" /\ name = "max_drawdown_60d") =>
         /\ value = Fin(-20000) => status = BandTable["below", TRUE]
         /\ value = Fin(-2000) => status = BandTable["above", TRUE]
         /\ value = Fin(-10000) => status = BandTable["inside", TRUE]

\* C5 witness: max_drawdown_60d at -0.02 is classified above-band inverse.
C5_Witness ==
  /\ StatusDone
  /\ registry = "FACTOR_NAMES"
  /\ name = "max_drawdown_60d"
  /\ value = Fin(-2000)
  /\ status = [text |-> "pian gao (feng xian)", color |-> "red"]

\* the results getValueStatus gives inside, below and above a normal band
BandResults == {BandTable[r, i] : r \in {"below", "inside", "above"}, i \in BOOLEAN}

\* C6 as stated: a key with no definition, or a definition without normalLow
\* or normalHigh, gets for every value the classification an in-band value of
\* a banded factor gets.
C6_Original ==
  (StatusDone /\ ~HasBand(Lookup(name))) => status = BandTable["inside", FALSE]

\* C6 as amended: a key with no definition gets 'wei zhi'/gray for every value;
\* a definition without normalLow or normalHigh gets, for every finite value,
\* 'he li'/green, except that with min and max both present a value below min
\* gets 'di yu he li fan wei'/blue and one above max 'chao chu he li fan wei'/red;
\* none of these is the in-band result.
C6_NoBandStatus ==
  LET inf == Lookup(name) IN
  (StatusDone /\ ~HasBand(inf)) =>
    /\ inf = undefined => status = [text |-> "wei zhi", color |-> "gray"]
    /\ (inf # undefined /\ Finite(value)) =>
         status = IF HasRange(inf) /\ ~NumLe(Fin(inf.min), value)
                  THEN [text |-> "di yu he li fan wei", color |-> "blue"]
                  ELSE IF HasRange(inf) /\ ~NumLe(value, Fin(inf.max))
                  THEN [text |-> "chao chu he li fan wei", color |-> "red"]
                  ELSE [text |-> "he li", color |-> "green"]
    /\ status # BandTable["inside", FALSE]

\* C6 witness: a key with no definition was classified 'wei zhi'/gray.
C6_Witness ==
  /\ StatusDone
  /\ name = "unknown_factor"
  /\ Lookup(name) = undefined
  /\ value = Fin(0)
  /\ status = [text |-> "wei zhi", color |-> "gray"]

\* C7: for a definition with min and max and no normal band, a value below min
\* or above max gets an out-of-range result, which is none of the in-band,
\* below-band and above-band results and not the within-range result.
C7_OutOfRange ==
  LET inf == Lookup(name) IN
  (StatusDone /\ HasRange(inf) /\ ~HasBand(inf) /\ Finite(value)) =>
    /\ ~NumLe(Fin(inf.min), value) =>
         /\ status = [text |-> "di yu he li fan wei", color |-> "blue"]
         /\ status \notin BandResults \cup {StatusReasonable, StatusUnknown}
    /\ ~NumLe(value, Fin(inf.max)) =>
         /\ status = [text |-> "chao chu he li fan wei", color |-> "red"]
         /\ status \notin BandResults \cup {StatusReasonable, StatusUnknown}

\* C7 witness: a definition with min, max and normalLow only, and a value above
\* max classified out of range.
C7_Witness ==
  /\ StatusDone
  /\ registry = "PARTIAL_INFOS"
  /\ name = "low_only"
  /\ value = Fin(100000 + 1)
  /\ status = StatusAboveRange

\* C8 as stated: for a missing value the position and the status are a neutral
\* default, not the result of evaluating the marker as a number against the
\* range or the band: the position is the sentinel 0.5 and the status none of
\* the below, above and out-of-range results.
C8_MissingNeutral ==
  (StatusDone /\ Missing(value)) =>
    /\ QEq(position, Half)
    /\ status \in {StatusNormal, StatusReasonable, StatusUnknown}

\* C9: for a missing value formatFactorValue returns "--", for every key.
C9_MissingPlaceholder ==
  (FormatDone /\ Missing(value)) => formatted = <<"-", "-">>

\* C9 witness: a registered percent factor with a null reading printed "--".
C9_Witness ==
  /\ FormatDone
  /\ registry = "FACTOR_NAMES"
  /\ name = "momentum_5d"
  /\ value = null
  /\ formatted = <<"-", "-">>

Digits == {Digit(d) : d \in 0..9}

DigitValue(c) == CHOOSE d \in 0..9 : Digit(d) = c

RECURSIVE CharsToNat(_)
\* the natural number a sequence of digits denotes
CharsToNat(s) ==
  IF s = <<>> THEN 0
  ELSE 10 * CharsToNat(SubSeq(s, 1, Len(s) - 1)) + DigitValue(s[Len(s)])

\* s without a leading "-"
Unsigned(s) == IF s # <<>> /\ s[1] = "-" THEN SubSeq(s, 2, Len(s)) ELSE s

\* s is digits, a point, and exactly four digits, after an optional "-"
IsFixed4(s) ==
  LET u == Unsigned(s) IN
  /\ Len(u) >= 6
  /\ u[Len(u) - 4] = "."
  /\ \A i \in (1..Len(u)) \ {Len(u) - 4} : u[i] \in Digits

\* the number of 10^-4 units that s, of the form IsFixed4, denotes, unsigned
Fixed4Units(s) ==
  LET u == Unsigned(s) IN
  CharsToNat(SubSeq(u, 1, Len(u) - 5) \o SubSeq(u, Len(u) - 3, Len(u)))

\* C10 as stated: for a key with no definition and a present value,
\* formatFactorValue returns the value with exactly 4 decimal digits (the
\* nearest multiple of 10^-4, signed as the value is) and no suffix.
C10_UnknownKeyFourDecimals ==
  (FormatDone /\ Lookup(name) = undefined /\ Finite(value)) =>
    /\ IsFixed4(formatted)
    /\ value.k = "fin"
    /\ (formatted[1] = "-") = (value.m < 0)
    /\ LET a == IF value.m < 0 THEN 0 - value.m ELSE value.m
       IN 2 * (10 * Fixed4Units(formatted) - a) \in -9..10

\* s is digits, a point, and exactly f digits, after an optional "-"
IsFixed(s, f) ==
  LET u == Unsigned(s) IN
  /\ Len(u) >= f + 2
  /\ u[Len(u) - f] = "."
  /\ \A i \in (1..Len(u)) \ {Len(u) - f} : u[i] \in Digits

\* the number of 10^-f units that s, of the form IsFixed(s, f), denotes, unsigned
FixedUnits(s, f) ==
  LET u == Unsigned(s) IN
  CharsToNat(SubSeq(u, 1, Len(u) - f - 1) \o SubSeq(u, Len(u) - f + 1, Len(u)))

\* s without its last n characters
DropLast(s, n) == SubSeq(s, 1, Len(s) - n)

\* the last n characters of s
Last(s, n) == SubSeq(s, Len(s) - n + 1, Len(s))

\* C11 as stated: for a definition marked isPercent and a present value,
\* formatFactorValue returns value * 100 with exactly 2 decimal digits (the
\* nearest multiple of 10^-2, signed as the value is) followed by one "%",
\* the unit not being appended again; momentum_5d with 0.0234 gives "2.34%".
C11_PercentTwoDecimals ==
  (FormatDone /\ Lookup(name) # undefined /\ Truthy(Lookup(name), "isPercent")
     /\ Finite(value)) =>
    /\ Len(formatted) >= 1
    /\ Last(formatted, 1) = <<"%">>
    /\ IsFixed(DropLast(formatted, 1), 2)
    /\ value.k = "fin"
    /\ (formatted[1] = "-") = (value.m < 0)
    /\ LET a == IF value.m < 0 THEN 0 - value.m ELSE value.m
       IN 2 * (10 * FixedUnits(DropLast(formatted, 1), 2) - a) \in -9..10
    /\ (name = "momentum_5d" /\ value = Fin(2340)) =>
         formatted = <<"2", ".", "3", "4", "%">>

\* C12 as stated: for a definition not marked isPercent and a present value,
\* formatFactorValue returns the value with exactly 4 decimal digits (the
\* nearest multiple of 10^-4, signed as the value is) followed by the
\* definition's unit if it has one; rsi_14 with 55.1234 gives "55.1234", and a
\* unit "x" is the suffix of what volume_expansion gives.
C12_PlainFourDecimals ==
  (FormatDone /\ Lookup(name) # undefined /\ ~Truthy(Lookup(name), "isPercent")
     /\ Finite(value)) =>
    LET unit == UnitOrEmpty(Lookup(name)) IN
    /\ Len(formatted) >= Len(unit)
    /\ Last(formatted, Len(unit)) = unit
    /\ IsFixed(DropLast(formatted, Len(unit)), 4)
    /\ value.k = "fin"
    /\ (formatted[1] = "-") = (value.m < 0)
    /\ LET a == IF value.m < 0 THEN 0 - value.m ELSE value.m
       IN 2 * (10 * FixedUnits(DropLast(formatted, Len(unit)), 4) - a) \in -9..10
    /\ (name = "rsi_14" /\ value = Fin(5512340)) =>
         formatted = <<"5", "5", ".", "1", "2", "3", "4">>
    /\ (name = "volume_expansion") => Last(formatted, 1) = <<"x">>

\* C13 as stated: getFactorName and getFactorDesc return the definition's name
\* and desc for a key of the registry; for a key with no definition there,
\* getFactorName returns the key itself and getFactorDesc the empty string.
C13_NameAndDesc ==
  DescribeDone =>
    IF name \in DOMAIN Table
    THEN /\ Has(Table[name], "name") => factorName = Table[name].name
         /\ Has(Table[name], "desc") => factorDesc = Table[name].desc
    ELSE factorName = name /\ factorDesc = ""

\* C14 as stated: getFactorInfo returns the configured definition for each
\* configured key and nothing (undefined) for every other string, and never
\* throws.
C14_InfoOrAbsent ==
  /\ pc \notin {"idle", "getFactorInfo"} => info # NotYet
  /\ InfoDone =>
       IF name \in DOMAIN Table THEN info = Table[name] ELSE info = undefined

\* the four thresholds of a definition are in order
Ordered(inf) ==
  /\ inf.min <= inf.normalLow
  /\ inf.normalLow <= inf.normalHigh
  /\ inf.normalHigh <= inf.max

\* C15: every definition of the configured registry that has min, normalLow,
\* normalHigh and max has them in the order min <= normalLow <= normalHigh <=
\* max; so has, then, the definition getFactorInfo returns for a configured key.
C15_ThresholdsOrdered ==
  registry = "FACTOR_NAMES" =>
    /\ \A key \in DOMAIN Table :
         (HasRange(Table[key]) /\ HasBand(Table[key])) => Ordered(Table[key])
    /\ (InfoDone /\ name \in DOMAIN Table /\ HasRange(info) /\ HasBand(info)) =>
         /\ info = Table[name]
         /\ Ordered(info)

\* getFactorInfo has returned gap_frequency, whose min equals its normalLow
C15_Witness ==
  /\ InfoDone
  /\ registry = "FACTOR_NAMES"
  /\ name = "gap_frequency"
  /\ HasRange(info) /\ HasBand(info)
  /\ info.min = info.normalLow
  /\ info.normalLow < info.normalHigh

\* C16: none of getFactorInfo, getValuePosition, getValueStatus, isValueNormal,
\* getFactorName, getFactorDesc, formatFactorValue and getIndustryMapping
\* throws, whatever the key, the value (finite or missing) and the symbol:
\* each returns a result once it has been called.
C16_Total ==
  /\ pc # "thrown"
  /\ formatted # TypeError
  /\ InfoDone => info # NotYet
  /\ PositionDone => position # NotYet
  /\ StatusDone => status # NotYet
  /\ FormatDone => formatted # <<>>
  /\ (ipc \notin {"idle", "useEffect"} /\ symbol # "") => mapping # NotYet

\* all the calls have returned for a missing value under an unregistered key
C16_Witness ==
  /\ pc = "done"
  /\ Missing(value)
  /\ name \notin DOMAIN Table
  /\ formatted = <<"-", "-">>

\* the default mapping as the claims describe it: industry '综合', theme
\* '综合板块', and the symbol followed by SPY.US and QQQ.US
IsDefaultFor(m, sym) ==
  m = [industry |-> "zong he", theme |-> "zong he ban kuai",
       relatedStocks |-> <<sym, "SPY.US", "QQQ.US">>]

\* C17 as stated: for every symbol that is not a key of the industry table,
\* getIndustryMapping returns the default mapping: industry '综合', theme
\* '综合板块', peers the symbol followed by SPY.US and QQQ.US.
C17_DefaultForUnknown ==
  (MappingDone /\ symbol \notin DOMAIN mappings) => IsDefaultFor(mapping, symbol)

\* C18: the lookup is exact and case-sensitive: for a key of the table
\* getIndustryMapping returns that entry's industry, theme and whole peer list
\* in its order (all five peers of AAPL.US), and for a symbol that differs from
\* a key in case or market suffix only it returns the default mapping.
C18_ExactMatch ==
  MappingDone =>
    /\ symbol \in DOMAIN mappings =>
         /\ mapping.industry = mappings[symbol].industry
         /\ mapping.theme = mappings[symbol].theme
         /\ mapping.relatedStocks = mappings[symbol].relatedStocks
         /\ relatedStocks = Val(mappings[symbol].relatedStocks)
    /\ symbol = "AAPL.US" =>
         mapping.relatedStocks = <<"AAPL.US", "MSFT.US", "GOOGL.US", "AMZN.US", "META.US">>
    /\ symbol \in {"aapl.us", "Aapl.US", "AAPL", "AAPL.HK", "tsla.us", "00700.hk",
                   "00700", "BABA"} =>
         IsDefaultFor(mapping, symbol)

\* the mapping of aapl.us has been resolved: it is the default one, not AAPL.US's
C18_Witness ==
  /\ MappingDone
  /\ symbol = "aapl.us"
  /\ mapping.theme = "zong he ban kuai"
  /\ mapping.relatedStocks[1] = "aapl.us"

\* C19 as stated: for every symbol, in the table or not, the peer list that
\* getIndustryMapping returns is not empty and begins with the symbol.
C19_SymbolFirst ==
  MappingDone =>
    /\ "relatedStocks" \in DOMAIN mapping
    /\ Len(mapping.relatedStocks) >= 1
    /\ mapping.relatedStocks[1] = symbol

RECURSIVE IsSubSeq(_, _)
\* the elements of a occur in b in a's order
IsSubSeq(a, b) ==
  IF a = <<>> THEN TRUE
  ELSE IF b = <<>> THEN FALSE
  ELSE IF a[1] = b[1] THEN IsSubSeq(Tail(a), Tail(b))
  ELSE IsSubSeq(a, Tail(b))

\* C20 as stated: analyzeIndustryStocks requests the analysis of at most the
\* first 5 elements of the resolved peer list, in the list's order, and the
\* symbols of its results are symbols of those first 5, in the same order.
C20_CappedPeers ==
  (MappingDone /\ relatedStocks # undefined) =>
    /\ Len(requested) <= 5
    /\ Len(requested) <= Len(relatedStocks.v)
    /\ \A i \in 1..Len(requested) : requested[i] = relatedStocks.v[i]
    /\ ipc = "returned" /\ sessionId # "" =>
         \/ Len(requested) = 5
         \/ Len(requested) = Len(relatedStocks.v)
    /\ IsSubSeq([i \in 1..Len(results) |-> results[i].symbol],
                SubSeq(relatedStocks.v, 1,
                       IF Len(relatedStocks.v) < 5 THEN Len(relatedStocks.v) ELSE 5))

NormalDone == StatusDone /\ pc # "isValueNormal"

\* C24: for a definition with a normal band and a finite value, the status is
\* exactly one of below-band, in-band and above-band: below-band exactly when
\* value < normalLow, above-band exactly when value > normalHigh; at
\* value = normalLow and at value = normalHigh the status is the in-band one
\* and isValueNormal is true.
C24_ClosedBand ==
  LET inf == Lookup(name)
      below == status \in {BandTable["below", i] : i \in BOOLEAN}
      inside == status = BandTable["inside", FALSE]
      above == status \in {BandTable["above", i] : i \in BOOLEAN}
  IN
  (NormalDone /\ HasBand(inf) /\ Finite(value)) =>
    /\ below \/ inside \/ above
    /\ ~(below /\ inside) /\ ~(inside /\ above) /\ ~(below /\ above)
    /\ below <=> ~NumLe(Fin(inf.normalLow), value)
    /\ above <=> (NumLe(Fin(inf.normalLow), value) /\ ~NumLe(value, Fin(inf.normalHigh)))
    /\ (value = Fin(inf.normalLow) \/ value = Fin(inf.normalHigh)) =>
         inside /\ isNormal

\* a reading at normalHigh of rsi_14 is in-band for both functions
C24_Witness ==
  /\ NormalDone
  /\ registry = "FACTOR_NAMES"
  /\ name = "rsi_14"
  /\ value = Fin(7000000)
  /\ status.text = "zheng chang qu jian"
  /\ isNormal

\* C25 as stated: for a key with a definition that has a normal band and for
\* every value, isValueNormal is true exactly when getValueStatus gives the
\* in-band result; for a key with no definition or no band isValueNormal is
\* true for every value.
C25_NormalAgrees ==
  NormalDone =>
    IF HasBand(Lookup(name))
    THEN isNormal <=> (status = [text |-> "zheng chang qu jian", color |-> "green"])
    ELSE isNormal

\* C26 as stated: with the configured registry, getValueStatus gives a key of
\* the registry one of the five band results, never 'di yu he li fan wei',
\* 'chao chu he li fan wei' or 'he li', and gives 'wei zhi'/gray exactly to
\* the keys that have no definition in the registry.
C26_OnlyBandResults ==
  (StatusDone /\ registry = "FACTOR_NAMES") =>
    /\ name \in DOMAIN FACTOR_NAMES =>
         /\ status \in BandResults
         /\ status.text \notin {"di yu he li fan wei", "chao chu he li fan wei", "he li"}
    /\ (status = [text |-> "wei zhi", color |-> "gray"]) <=> (name \notin DOMAIN FACTOR_NAMES)

\* C27: for a key of the configured registry and a value that isValueNormal
\* finds in-band, the position is (value - min) / (max - min) itself, not a
\* clamped end, and lies between the positions of normalLow and normalHigh.
C27_MarkerInsideBand ==
  (NormalDone /\ registry = "FACTOR_NAMES" /\ name \in DOMAIN FACTOR_NAMES
     /\ HasBand(FACTOR_NAMES[name]) /\ isNormal) =>
    LET inf == FACTOR_NAMES[name]
        x == ToNumber(value)
    IN
    /\ x.k = "fin"
    /\ position.k = "fin"
    /\ QEq(position, Quot(x.m - inf.min, inf.max - inf.min))
    /\ QLe(Quot(inf.normalLow - inf.min, inf.max - inf.min), position)
    /\ QLe(position, Quot(inf.normalHigh - inf.min, inf.max - inf.min))

\* a reading strictly inside the band of momentum_5d, and its marker strictly
\* inside the band's segment
C27_Witness ==
  /\ NormalDone
  /\ registry = "FACTOR_NAMES"
  /\ name = "momentum_5d"
  /\ value = Fin(2340)
  /\ isNormal
  /\ ~QLe(position, Quot(FACTOR_NAMES[name].normalLow - FACTOR_NAMES[name].min,
                         FACTOR_NAMES[name].max - FACTOR_NAMES[name].min))
  /\ ~QLe(Quot(FACTOR_NAMES[name].normalHigh - FACTOR_NAMES[name].min,
               FACTOR_NAMES[name].max - FACTOR_NAMES[name].min), position)

\* C22: no call changes the factor registry: the table the functions read is
\* the same after every step of every activity.  (The industry table is a
\* literal that getIndustryMapping builds at each call.)
C22_TablesUnchanged == [][registry' = registry /\ Table' = Table]_vars

\* all the calls of the card have been made on the configured registry
C22_Witness ==
  /\ pc = "done"
  /\ registry = "FACTOR_NAMES"
  /\ Table = FACTOR_NAMES
  /\ name \in DOMAIN FACTOR_NAMES
  /\ info = FACTOR_NAMES[name]

\* the elements of a sequence
Range(seq) == {seq[i] : i \in 1..Len(seq)}

\* C23 as stated: when the factors of an analysis result are grouped by
\* getFactorCategories, every key of the registry among them is in the factors
\* of exactly one category.
C23_OneCategory ==
  (cpc = "done" /\ hasResult) =>
    \A key \in Range(latestFactors) \cap DOMAIN FACTOR_NAMES :
      Cardinality({i \in 1..Len(categories) : key \in Range(categories[i].factors)}) = 1

RECURSIVE Answered(_, _)
\* the stocks among req whose request came to data, in order
Answered(req, out) ==
  IF req = <<>> THEN <<>>
  ELSE (IF Head(out) = "data" THEN <<Head(req)>> ELSE <<>>)
       \o Answered(Tail(req), Tail(out))

\* C28: when analyzeIndustryStocks returns, without a session id or with an
\* empty peer list it has made no request and its result is empty; otherwise
\* it has requested every one of the first 5 peers, whatever the earlier
\* requests came to, and its results are, in order, the entries of exactly the
\* peers whose request came to data: a request that was rejected, was not ok
\* or carried an error field leaves no entry.
C28_FailureTolerance ==
  /\ Len(outcomes) = Len(requested)
  /\ [i \in 1..Len(results) |-> results[i].stock] = Answered(requested, outcomes)
  /\ ipc = "returned" =>
       IF sessionId = "" \/ relatedStocks = Val(<<>>)
       THEN requested = <<>> /\ results = <<>>
       ELSE /\ Len(requested) = (IF Len(relatedStocks.v) < 5 THEN Len(relatedStocks.v) ELSE 5)
            /\ \A i \in 1..Len(requested) : requested[i] = relatedStocks.v[i]

\* the first three requests failed in the three ways, the last two were answered
C28_Witness ==
  /\ ipc = "returned"
  /\ outcomes = <<"rejected", "not ok", "error field", "data", "data">>
  /\ Len(requested) = 5
  /\ Len(results) = 2
  /\ results[1].stock = requested[4]

\* C29: without a Kimi API key or without an analysis result
\* generateResearchReport sets an error and generatingReport and
\* analyzingIndustry are never set; otherwise both are true while the call is
\* under way and both are false once it has finished, by completing or by
\* catching a failure, and after a failure the report is empty and the error
\* is set; and a call that has begun finishes.
C29_BusyEnds ==
  /\ [](/\ rpc = "refused" =>
             /\ kimiApiKey = "" \/ ~hasResult
             /\ error # ""
        /\ (kimiApiKey = "" \/ ~hasResult) =>
             /\ ~generatingReport /\ ~analyzingIndustry
             /\ rpc \in {"idle", "generateResearchReport", "refused"}
        /\ rpc \in {"analyzing", "kimi"} => generatingReport /\ analyzingIndustry
        /\ rpc \in {"caught", "completed"} => ~generatingReport /\ ~analyzingIndustry
        /\ rpc = "caught" => researchReport = "" /\ error # "")
  /\ (rpc = "generateResearchReport") ~> (rpc \in {"refused", "caught", "completed"})

\* the Kimi request failed after the peers were analysed: the call is over,
\* the flags are down, the report is empty and the error is set
C29_Witness ==
  /\ rpc = "caught"
  /\ kimiApiKey # ""
  /\ hasResult
  /\ Len(requested) = 5
  /\ error = "bao gao sheng cheng shi bai: Kimi API Key wu xiao huo yi guo qi"
  /\ researchReport = ""
  /\ ~generatingReport /\ ~analyzingIndustry

\* C30: handleLogout removes auth_token and user_info from localStorage, sets
\* the phone auth token and the user info to null, the has-credentials and
\* authenticated flags to false and the session id to '', and leaves the
\* holdings, the watchlist, the portfolio analysis results and the analysis
\* result as they were.
C30_LogoutFrame ==
  [][(lpc = "handleLogout" /\ lpc' = "done") =>
       /\ localStorage'["auth_token"] = null
       /\ localStorage'["user_info"] = null
       /\ phoneAuthToken' = null
       /\ userInfo' = null
       /\ hasLongBridgeCredentials' = FALSE
       /\ isAuthenticated' = FALSE
       /\ sessionId' = ""
       /\ holdings' = holdings
       /\ watchlist' = watchlist
       /\ portfolioAnalysisResults' = portfolioAnalysisResults
       /\ hasResult' = hasResult
       /\ symbol' = symbol
       /\ latestFactors' = latestFactors]_vars

\* after the logout of a user with holdings, a watchlist, portfolio results
\* and an analysis result: they are still there and the login state is clear
C30_Witness ==
  /\ lpc = "done"
  /\ holdings # <<>>
  /\ watchlist # <<>>
  /\ portfolioAnalysisResults # <<>>
  /\ hasResult
  /\ phoneAuthToken = null
  /\ localStorage["auth_token"] = null
  /\ sessionId = ""
  /\ ~isAuthenticated

====
